---------------------------- MODULE Spec2Model ----------------------------
(***************************************************************************)
(* Wheel of names (src/script.js): the spin state machine, the winner      *)
(* resolution, the easing curve and the name-list update handler.          *)
(*                                                                         *)
(* Angles are exact rationals <<numerator, denominator>> in degrees, so    *)
(* 360/N, the cubic easing and the JavaScript remainder are computed as    *)
(* the code computes them, without the rounding of IEEE doubles; for the   *)
(* lists of 1, 2, 3 and 8 names the state machine spins, the angles at the *)
(* end of a spin are exact in doubles too.  Where the rounding matters,    *)
(* the angles are also computed in doubles, operation by operation.  Text  *)
(* is a sequence of one-character strings.                                 *)
(***************************************************************************)
EXTENDS Integers, Sequences, FiniteSets, TLC

(***************************************************************************)
(* Bounds of the model.                                                    *)
(***************************************************************************)
\* easeOutCubic is applied to the multiples of 1/EaseGrid in [0, 1]
EaseGrid == 12
\* every text of at most this length is typed into namesInput
MaxInputLen == 2
\* number of spins accepted in one behaviour
MaxSpins == 2
\* number of spins during which click events are dispatched on the disabled button
DirectSpins == 1
\* number of updates made one after the other when the handler is applied on its own
MaxUpdates == 2
\* drawWheel is applied on its own at the multiples of 360/DrawGrid degrees
DrawGrid == 8
\* number of spins made one after the other when the angles are computed in doubles
MaxDoubleSpins == 2

\* the characters of the texts typed exhaustively: a letter, the separator, a space
Chars == {"a", ",", " "}
\* values of Math.floor(Math.random() * 1200) the model draws (line 156)
DurationJitters == {0, 600}
\* milliseconds between the timestamps of successive animation frames
FrameDeltas == {1800}
\* milliseconds from the call of spin() to the timestamp of a prompt first frame
PromptDeltas == {100}

(***************************************************************************)
(* Exact rational arithmetic.                                              *)
(***************************************************************************)
Abs(x) == IF x < 0 THEN -x ELSE x
Max(a, b) == IF a > b THEN a ELSE b

RECURSIVE Gcd(_, _)
Gcd(a, b) == IF b = 0 THEN a ELSE Gcd(b, a % b)

\* the rational n/d in lowest terms with a positive denominator
Rat(n, d) ==
  LET s == IF d < 0 THEN -1 ELSE 1
      g == Gcd(Abs(n), Abs(d))
  IN  <<(s * n) \div g, (s * d) \div g>>

RInt(n) == <<n, 1>>
Lcm(a, b) == (a \div Gcd(a, b)) * b
RAdd(x, y) ==
  LET m == Lcm(x[2], y[2])
  IN  Rat(x[1] * (m \div x[2]) + y[1] * (m \div y[2]), m)
RNeg(x) == <<-x[1], x[2]>>
RSub(x, y) == RAdd(x, RNeg(y))
\* x and y are in lowest terms, and so is the product of the cross-reduced factors
RMul(x, y) ==
  LET a == Rat(x[1], y[2])
      b == Rat(y[1], x[2])
  IN  <<a[1] * b[1], a[2] * b[2]>>
\* y # 0
RDiv(x, y) == RMul(x, Rat(y[2], y[1]))
RLess(x, y) ==
  LET m == Lcm(x[2], y[2])
  IN  x[1] * (m \div x[2]) < y[1] * (m \div y[2])
RLeq(x, y) == x = y \/ RLess(x, y)
RMin(x, y) == IF RLess(y, x) THEN y ELSE x
\* Math.floor
RFloor(x) == x[1] \div x[2]
\* the JavaScript remainder x % m for an integer m > 0: truncated, with the sign of x
JsMod(x, m) ==
  LET r == Abs(x[1]) % (m * x[2])
  IN  Rat(IF x[1] < 0 THEN -r ELSE r, x[2])


(***************************************************************************)
(* IEEE 754 doubles, the Numbers of JavaScript, for the angles at the end  *)
(* of a spin.  A Number is a sign and a magnitude, the magnitude a natural *)
(* number of units of 2^-FractionBits; every result is rounded to          *)
(* SignificandBits significant bits, to nearest with ties to even.  The    *)
(* quotients 360/segCount are at least 2 and the other angles are sums,    *)
(* differences and remainders of such numbers, so every double met is a    *)
(* whole number of units.                                                  *)
(***************************************************************************)
LimbBase == 32768
FractionBits == 52
SignificandBits == 53

\* natural numbers of any size: the limbs in base LimbBase, lowest first, the
\* highest not 0
RECURSIVE NTrim(_)
NTrim(a) == IF a # <<>> /\ a[Len(a)] = 0 THEN NTrim(SubSeq(a, 1, Len(a) - 1)) ELSE a
RECURSIVE NOfInt(_)
NOfInt(n) == IF n = 0 THEN <<>> ELSE <<n % LimbBase>> \o NOfInt(n \div LimbBase)
RECURSIVE NToInt(_)
NToInt(a) == IF a = <<>> THEN 0 ELSE a[1] + LimbBase * NToInt(Tail(a))
NLimb(a, i) == IF i <= Len(a) THEN a[i] ELSE 0
RECURSIVE NAddFrom(_, _, _, _)
NAddFrom(a, b, i, carry) ==
  IF i > Len(a) /\ i > Len(b) THEN (IF carry = 0 THEN <<>> ELSE <<carry>>)
  ELSE LET s == NLimb(a, i) + NLimb(b, i) + carry
       IN  <<s % LimbBase>> \o NAddFrom(a, b, i + 1, s \div LimbBase)
NAdd(a, b) == NAddFrom(a, b, 1, 0)
\* a - b for a >= b
RECURSIVE NSubFrom(_, _, _, _)
NSubFrom(a, b, i, borrow) ==
  IF i > Len(a) THEN <<>>
  ELSE LET s == NLimb(a, i) - NLimb(b, i) - borrow
       IN  IF s < 0 THEN <<s + LimbBase>> \o NSubFrom(a, b, i + 1, 1)
           ELSE <<s>> \o NSubFrom(a, b, i + 1, 0)
NSub(a, b) == NTrim(NSubFrom(a, b, 1, 0))
\* -1, 0, 1 as a < b, a = b, a > b
RECURSIVE NCmpFrom(_, _, _)
NCmpFrom(a, b, i) ==
  IF i = 0 THEN 0
  ELSE IF a[i] < b[i] THEN -1
  ELSE IF a[i] > b[i] THEN 1
  ELSE NCmpFrom(a, b, i - 1)
NCmp(a, b) ==
  IF Len(a) < Len(b) THEN -1
  ELSE IF Len(a) > Len(b) THEN 1
  ELSE NCmpFrom(a, b, Len(a))
NLeq(a, b) == NCmp(a, b) <= 0
\* a * m for 0 <= m <= LimbBase
RECURSIVE NMulFrom(_, _, _, _)
NMulFrom(a, m, i, carry) ==
  IF i > Len(a) THEN (IF carry = 0 THEN <<>> ELSE <<carry>>)
  ELSE LET p == a[i] * m + carry
       IN  <<p % LimbBase>> \o NMulFrom(a, m, i + 1, p \div LimbBase)
NMulSmall(a, m) == NTrim(NMulFrom(a, m, 1, 0))
\* quotient and remainder of a by m, 0 < m <= LimbBase
RECURSIVE NDivFrom(_, _, _, _)
NDivFrom(a, m, i, rem) ==
  IF i = 0 THEN [q |-> <<>>, r |-> rem]
  ELSE LET cur == rem * LimbBase + a[i]
           rest == NDivFrom(a, m, i - 1, cur % m)
       IN  [q |-> Append(rest.q, cur \div m), r |-> rest.r]
NDivSmall(a, m) ==
  LET d == NDivFrom(a, m, Len(a), 0) IN [q |-> NTrim(d.q), r |-> d.r]
RECURSIVE BitLen(_)
BitLen(n) == IF n = 0 THEN 0 ELSE 1 + BitLen(n \div 2)
\* bits of one limb
LimbBits == BitLen(LimbBase) - 1
NBitLen(a) == IF a = <<>> THEN 0 ELSE (Len(a) - 1) * LimbBits + BitLen(a[Len(a)])
RECURSIVE NShiftLeft(_, _)
NShiftLeft(a, d) ==
  IF a = <<>> \/ d = 0 THEN a
  ELSE IF d >= LimbBits THEN NShiftLeft(<<0>> \o a, d - LimbBits)
  ELSE NMulSmall(a, 2^d)
RECURSIVE NShiftRight(_, _)
NShiftRight(a, d) ==
  IF a = <<>> \/ d = 0 THEN a
  ELSE IF d >= LimbBits THEN NShiftRight(Tail(a), d - LimbBits)
  ELSE NDivSmall(a, 2^d).q
NOdd(a) == a # <<>> /\ a[1] % 2 = 1
\* a, with a fraction below it when sticky, to the nearest multiple of 2^d, ties to even
NRound(a, d, sticky) ==
  IF d = 0 THEN a
  ELSE LET q == NShiftRight(a, d)
           low == NSub(a, NShiftLeft(q, d))
           half == NShiftLeft(NOfInt(1), d - 1)
           c == NCmp(low, half)
           up == c > 0 \/ (c = 0 /\ (sticky \/ NOdd(q)))
       IN  NShiftLeft(IF up THEN NAdd(q, NOfInt(1)) ELSE q, d)
\* to SignificandBits significant bits
NRoundSig(a, sticky) == NRound(a, Max(0, NBitLen(a) - SignificandBits), sticky)

\* a Number: sign and magnitude in units of 2^-FractionBits
DZero == [neg |-> FALSE, mag |-> <<>>]
DMake(neg, mag) == IF mag = <<>> THEN DZero ELSE [neg |-> neg, mag |-> mag]
DInt(n) == DMake(n < 0, NShiftLeft(NOfInt(IF n < 0 THEN -n ELSE n), FractionBits))
DNeg(x) == DMake(~x.neg, x.mag)
DAdd(x, y) ==
  IF x.neg = y.neg THEN DMake(x.neg, NRoundSig(NAdd(x.mag, y.mag), FALSE))
  ELSE IF NLeq(y.mag, x.mag) THEN DMake(x.neg, NRoundSig(NSub(x.mag, y.mag), FALSE))
  ELSE DMake(y.neg, NRoundSig(NSub(y.mag, x.mag), FALSE))
DSub(x, y) == DAdd(x, DNeg(y))
\* n * x for an integer 0 <= n <= LimbBase
DMulInt(n, x) == DMake(x.neg, NRoundSig(NMulSmall(x.mag, n), FALSE))
\* x / 2
DHalf(x) == DMake(x.neg, NShiftRight(x.mag, 1))
\* n / m for integers n >= 0 and 0 < m <= LimbBase
DDivInt(n, m) ==
  LET d == NDivSmall(NShiftLeft(NOfInt(n), FractionBits), m)
  IN  DMake(FALSE, NRoundSig(d.q, d.r # 0))
\* x % m for an integer 0 < m <= LimbBase: exact, with the sign of x
DMod(x, m) ==
  LET whole == NToInt(NShiftRight(x.mag, FractionBits))
      taken == NMulSmall(NShiftLeft(NOfInt(m), FractionBits), whole \div m)
  IN  DMake(x.neg, NSub(x.mag, taken))
\* the largest k with k*b <= a, from k on
RECURSIVE NQuotFrom(_, _, _)
NQuotFrom(a, b, k) == IF NLeq(NMulSmall(b, k + 1), a) THEN NQuotFrom(a, b, k + 1) ELSE k
IsPow2(n) == 2^(BitLen(n) - 1) = n
\* Math.floor(x / y) for x >= 0, y > 0
DFloorDiv(x, y) ==
  LET k == NQuotFrom(x.mag, y.mag, 0)
      e == IF IsPow2(k + 1) THEN BitLen(k + 1) - 2 ELSE BitLen(k + 1) - 1
      c == SignificandBits - e
      roundsUp == NLeq(NSub(NShiftLeft(NMulSmall(y.mag, k + 1), c), y.mag),
                       NShiftLeft(x.mag, c))
  IN  IF roundsUp THEN k + 1 ELSE k

(***************************************************************************)
(* Text.                                                                   *)
(***************************************************************************)
\* String.prototype.trim
RECURSIVE TrimLeft(_)
TrimLeft(s) == IF s # <<>> /\ Head(s) = " " THEN TrimLeft(Tail(s)) ELSE s
RECURSIVE TrimRight(_)
TrimRight(s) ==
  IF s # <<>> /\ s[Len(s)] = " " THEN TrimRight(SubSeq(s, 1, Len(s) - 1)) ELSE s
Trim(s) == TrimRight(TrimLeft(s))

\* String.prototype.split(','): cur is the piece being read, acc the pieces read
RECURSIVE SplitAcc(_, _, _)
SplitAcc(s, cur, acc) ==
  IF s = <<>> THEN Append(acc, cur)
  ELSE IF Head(s) = "," THEN SplitAcc(Tail(s), <<>>, Append(acc, cur))
  ELSE SplitAcc(Tail(s), Append(cur, Head(s)), acc)
SplitCommas(s) == SplitAcc(s, <<>>, <<>>)

\* Array.prototype.join
RECURSIVE Join(_, _)
Join(list, sep) ==
  IF list = <<>> THEN <<>>
  ELSE IF Len(list) = 1 THEN list[1]
  ELSE list[1] \o sep \o Join(Tail(list), sep)

defaultNames ==
  << <<"A", "l", "i", "c", "e">>,
     <<"B", "o", "b">>,
     <<"C", "h", "a", "r", "l", "i", "e">>,
     <<"D", "i", "a", "n", "a">>,
     <<"E", "v", "e">>,
     <<"F", "r", "a", "n", "k">>,
     <<"G", "r", "a", "c", "e">>,
     <<"H", "e", "i", "d", "i">> >>

\* texts of resultText
WinnerPrefix == <<"W", "i", "n", "n", "e", "r", ":", " ">>
\* the dash of 'Winner: \u2014', one character
Dash == <<"-">>
IdleText == WinnerPrefix \o Dash
SpinningText == <<"S", "p", "i", "n", "n", "i", "n", "g", ".", ".", ".">>

\* raw.split(',').filter(Boolean): the pieces kept as they are, not trimmed
ParseNamesUntrimmed(raw) ==
  SelectSeq(SplitCommas(raw), LAMBDA p : p # <<>>)

\* raw.split(',').map(s => s.trim()): the empty pieces kept
ParseNamesUnfiltered(raw) ==
  LET pieces == SplitCommas(raw)
  IN  [i \in DOMAIN pieces |-> Trim(pieces[i])]

\* raw.split(',').map(s => s.trim()).filter(Boolean)
ParseNames(raw) ==
  LET pieces == SplitCommas(raw)
      trimmed == [i \in DOMAIN pieces |-> Trim(pieces[i])]
  IN  SelectSeq(trimmed, LAMBDA p : p # <<>>)

\* longer texts that are typed too: two names, and three with spaces and a repeat
SampleTexts ==
  { <<"a", ",", "b">>,
    <<" ", "b", ",", " ", "a", ",", ",", "b", " ">> }

\* the texts namesInput.value can hold when the update button is clicked: the
\* typed ones and the text the script puts there at load, names.join(', ')
Inputs ==
  UNION {[1..k -> Chars] : k \in 0..MaxInputLen}
    \cup SampleTexts \cup {Join(defaultNames, <<",", " ">>)}

(***************************************************************************)
(* Program constants.                                                      *)
(***************************************************************************)
FullTurn == 360
PointerAngle == 270
MinFullRot == 4
FullRotChoices == 3
MinDuration == 4200
QuarterTurn == 90
\* fullRot = 4 + Math.floor(Math.random() * 3)
FullRots == {MinFullRot + k : k \in 0..(FullRotChoices - 1)}
\* duration = 4200 + Math.floor(Math.random() * 1200)
Durations == {MinDuration + j : j \in DurationJitters}

(***************************************************************************)
(* State.                                                                  *)
(***************************************************************************)
VARIABLES
  names,              \* let names: the current list, a sequence of texts
  rotation,           \* let rotation: degrees, a rational
  spinning,           \* let spinning
  spinBtnDisabled,    \* spinBtn.disabled
  updateBtnDisabled,  \* updateBtn.disabled
  resultText,         \* resultText.textContent
  raf,                \* animate callbacks passed to requestAnimationFrame and not yet
                      \* run, each with the constants its closure holds
  canvas,             \* what drawWheel drew last: the rotation and the slice count
  spinSound,          \* the looping spin cue
  winSound,           \* the win cue
  now,                \* the clock of performance.now() and of the frame timestamps, ms
  accepted,           \* history: spins that passed the guard of spin()
  finished,           \* history: runs of finishSpin
  lastSpin,           \* history: what the last accepted spin() of the current list
                      \* drew and started from
  lastFinish,         \* history: the argument and the index of the finishSpin that
                      \* ended that spin
  ev,                 \* history: the handler that ran last and what it did
  probe               \* the arguments and the result of a function applied on its own

vars == <<names, rotation, spinning, spinBtnDisabled, updateBtnDisabled, resultText,
          raf, canvas, spinSound, winSound, now, accepted, finished, lastSpin,
          lastFinish, ev, probe>>

\* everything but the probe
programVars == <<names, rotation, spinning, spinBtnDisabled, updateBtnDisabled,
                 resultText, raf, canvas, spinSound, winSound, now, accepted,
                 finished, lastSpin, lastFinish, ev>>

\* the program's state as one record, for the handlers below
Cur ==
  [names |-> names, rotation |-> rotation, spinning |-> spinning,
   spinBtnDisabled |-> spinBtnDisabled, updateBtnDisabled |-> updateBtnDisabled,
   resultText |-> resultText, raf |-> raf, canvas |-> canvas,
   spinSound |-> spinSound, winSound |-> winSound, finished |-> finished,
   lastSpin |-> lastSpin, lastFinish |-> lastFinish]

Commit(st) ==
  /\ names' = st.names
  /\ rotation' = st.rotation
  /\ spinning' = st.spinning
  /\ spinBtnDisabled' = st.spinBtnDisabled
  /\ updateBtnDisabled' = st.updateBtnDisabled
  /\ resultText' = st.resultText
  /\ raf' = st.raf
  /\ canvas' = st.canvas
  /\ spinSound' = st.spinSound
  /\ winSound' = st.winSound
  /\ finished' = st.finished
  /\ lastSpin' = st.lastSpin
  /\ lastFinish' = st.lastFinish
  /\ probe' = probe

\* no function is applied on its own
NoProbe == [fn |-> "none"]

\* the histories before any spin
NoSpin == [targetIndex |-> -1, fullRot |-> 0, from |-> RInt(0), segCount |-> 0]
NoFinish == [winIndex |-> -1, index |-> -1]

\* a media element: whether it is playing, and whether currentTime is 0
Silent == [playing |-> FALSE, atStart |-> TRUE]

(***************************************************************************)
(* drawWheel, easeOutCubic.                                                *)
(***************************************************************************)
\* drawWheel(rotDeg): segCount = Math.max(1, names.length) slices drawn at rotDeg
DrawWheel(st, rotDeg) ==
  [st EXCEPT !.canvas = [rot |-> rotDeg, segCount |-> Max(1, Len(st.names))]]

\* names[i] past the end of the list: undefined, which is no text
Undefined == <<"undefined">>
ElementAt(list, i) == IF i + 1 \in DOMAIN list THEN list[i + 1] ELSE Undefined

\* wrapText(context, text, ...): text.split(' ') throws a TypeError when text is
\* undefined
wrapTextThrows(text) == text = Undefined

\* the loop of drawWheel from slice i on.  ctx counts the calls of ctx.save() not
\* yet matched by ctx.restore(), the slices filled and the labels written; an
\* exception leaves the loop and the function with ctx as it is
RECURSIVE DrawSlices(_, _, _, _)
DrawSlices(list, i, segCount, ctx) ==
  IF i >= segCount THEN ctx
  ELSE
    LET filled == [ctx EXCEPT !.slices = @ + 1, !.saved = @ + 1]
    IN  IF wrapTextThrows(ElementAt(list, i)) THEN [filled EXCEPT !.threw = TRUE]
        ELSE DrawSlices(list, i + 1, segCount,
                        [filled EXCEPT !.labels = @ + 1, !.saved = @ - 1])

\* drawWheel(rotDeg) with names = list, step by step: ctx.save(), the slices and
\* their labels, the outer ring, ctx.restore()
drawWheel(list, rotDeg) ==
  LET segCount == Max(1, Len(list))
      opened == [rot |-> rotDeg, segCount |-> segCount, saved |-> 1, slices |-> 0,
                 labels |-> 0, ring |-> FALSE, threw |-> FALSE]
      sliced == DrawSlices(list, 0, segCount, opened)
  IN  IF sliced.threw THEN sliced
      ELSE [sliced EXCEPT !.ring = TRUE, !.saved = @ - 1]

\* 1 - Math.pow(t - 1, 3): the difference taken the other way round
easeOutCubicSwapped(t) ==
  LET u == RSub(t, RInt(1))
  IN  RSub(RInt(1), RMul(u, RMul(u, u)))

\* 1 - Math.pow(1 - t, 3)
easeOutCubic(t) ==
  LET u == RSub(RInt(1), t)
  IN  RSub(RInt(1), RMul(u, RMul(u, u)))

(***************************************************************************)
(* Audio.  HTMLMediaElement.play() returns a promise; a failure to play    *)
(* rejects that promise later and throws nothing into the caller.          *)
(***************************************************************************)
\* play() throwing into its caller when the cue cannot be played
PlayThrowsOnFailure(ok) == ~ok

PlayThrows(ok) == FALSE

\* el.currentTime = 0; el.play(): the element plays when the cue can be played
Restart(ok) == [playing |-> ok, atStart |-> TRUE]
\* el.pause(); el.currentTime = 0
StopAndRewind(el) == [el EXCEPT !.playing = FALSE, !.atStart = TRUE]
\* time passes: a playing element leaves position 0
Advance(el) == IF el.playing THEN [el EXCEPT !.atStart = FALSE] ELSE el

(***************************************************************************)
(* finishSpin (lines 182-208).                                             *)
(***************************************************************************)
\* Math.floor((360 + pointerAngle - normalizedRotation) / (360 / segCount)): the
\* offset not reduced modulo 360
WinnerIndexUnwrapped(rot, segCount) ==
  LET normalizedRotation == JsMod(rot, FullTurn)
      offset == RSub(RInt(FullTurn + PointerAngle), normalizedRotation)
  IN  IF segCount = 0 THEN 0
      ELSE RFloor(RDiv(offset, Rat(FullTurn, segCount)))

\* Math.floor(((360 + pointerAngle - normalizedRotation) % 360) / (360 / segCount));
\* with segCount = 0 the divisor is Infinity and the quotient 0
WinnerIndex(rot, segCount) ==
  LET normalizedRotation == JsMod(rot, FullTurn)
      offset == JsMod(RSub(RInt(FullTurn + PointerAngle), normalizedRotation),
                      FullTurn)
  IN  IF segCount = 0 THEN 0
      ELSE RFloor(RDiv(offset, Rat(FullTurn, segCount)))

\* names[index] || '-'
NameAt(list, index) ==
  IF index + 1 \in DOMAIN list /\ list[index + 1] # <<>> THEN list[index + 1] ELSE Dash

\* finishSpin without spinning = false
finishSpinKeepsFlag(st, winIndex, winOk) ==
  LET index == WinnerIndex(st.rotation, Len(st.names))
      winner == NameAt(st.names, index)
  IN  [st EXCEPT !.spinBtnDisabled = FALSE,
                 !.updateBtnDisabled = FALSE,
                 !.spinSound = StopAndRewind(@),
                 !.resultText = WinnerPrefix \o winner,
                 !.winSound = Restart(winOk),
                 !.finished = @ + 1,
                 !.lastFinish = [winIndex |-> winIndex, index |-> index]]

\* finishSpin without spinSound.pause(); spinSound.currentTime = 0
finishSpinKeepsCue(st, winIndex, winOk) ==
  LET index == WinnerIndex(st.rotation, Len(st.names))
      winner == NameAt(st.names, index)
  IN  [st EXCEPT !.spinning = FALSE,
                 !.spinBtnDisabled = FALSE,
                 !.updateBtnDisabled = FALSE,
                 !.resultText = WinnerPrefix \o winner,
                 !.winSound = Restart(winOk),
                 !.finished = @ + 1,
                 !.lastFinish = [winIndex |-> winIndex, index |-> index]]

finishSpin(st, winIndex, winOk) ==
  LET index == WinnerIndex(st.rotation, Len(st.names))
      winner == NameAt(st.names, index)
  IN  [st EXCEPT !.spinning = FALSE,
                 !.spinBtnDisabled = FALSE,
                 !.updateBtnDisabled = FALSE,
                 !.spinSound = StopAndRewind(@),
                 !.resultText = WinnerPrefix \o winner,
                 !.winSound = Restart(winOk),
                 !.finished = @ + 1,
                 !.lastFinish = [winIndex |-> winIndex, index |-> index]]

(***************************************************************************)
(* spin and its animate closure (lines 135-175).                           *)
(***************************************************************************)
\* the guard without its test of the flag
SpinRejectedFlagless(st) == Len(st.names) = 0

\* if (spinning || names.length === 0) return;
SpinRejected(st) == st.spinning \/ Len(st.names) = 0

\* (targetIndex * anglePer) + (anglePer / 2) - 90
TargetMidAngle(targetIndex, segCount) ==
  LET anglePer == Rat(FullTurn, segCount)
  IN  RSub(RAdd(RMul(RInt(targetIndex), anglePer), RDiv(anglePer, RInt(2))),
           RInt(QuarterTurn))

\* fullRot * 360 + targetMidAngle
FinalRotation(targetIndex, fullRot, segCount) ==
  RAdd(RInt(fullRot * FullTurn), TargetMidAngle(targetIndex, segCount))

\* rotation % 360
StartRotation(rot) == JsMod(rot, FullTurn)

\* rotation + finalRotation
EndRotation(rot, finalRotation) == RAdd(rot, finalRotation)

\* the constants of one call of spin(), which its animate closure keeps
Session(st, targetIndex, fullRot, duration, start) ==
  [targetIndex |-> targetIndex,
   fullRot |-> fullRot,
   duration |-> duration,
   start |-> start,
   startRotation |-> StartRotation(st.rotation),
   endRotation |->
     EndRotation(st.rotation, FinalRotation(targetIndex, fullRot, Len(st.names)))]

(***************************************************************************)
(* The same angles in doubles: spin(), the last call of animate, where     *)
(* t = 1 and eased = 1 - Math.pow(0, 3) = 1, and the index of finishSpin.  *)
(***************************************************************************)
\* (targetIndex * anglePer) + (anglePer / 2) - 90
DTargetMidAngle(targetIndex, segCount) ==
  LET anglePer == DDivInt(FullTurn, segCount)
  IN  DSub(DAdd(DMulInt(targetIndex, anglePer), DHalf(anglePer)), DInt(QuarterTurn))

\* fullRot * 360 + targetMidAngle
DFinalRotation(targetIndex, fullRot, segCount) ==
  DAdd(DInt(fullRot * FullTurn), DTargetMidAngle(targetIndex, segCount))

\* rotation = startRotation + (endRotation - startRotation) * eased with eased = 1,
\* for startRotation = rotation % 360 and endRotation = rotation + finalRotation
DSpinEnd(rot, targetIndex, fullRot, segCount) ==
  LET startRotation == DMod(rot, FullTurn)
      endRotation == DAdd(rot, DFinalRotation(targetIndex, fullRot, segCount))
  IN  DAdd(startRotation, DSub(endRotation, startRotation))

\* Math.floor(((360 + pointerAngle - normalizedRotation) % 360) / (360 / segCount))
DWinnerIndex(rot, segCount) ==
  LET normalizedRotation == DMod(rot, FullTurn)
      offset == DMod(DSub(DInt(FullTurn + PointerAngle), normalizedRotation), FullTurn)
  IN  DFloorDiv(offset, DDivInt(FullTurn, segCount))

\* animate requesting the next frame also when it finishes the spin
animateRequestsAlways(st, cb, frameTime, winOk) ==
  LET elapsed == frameTime - cb.start
      t == RMin(RInt(1), Rat(elapsed, cb.duration))
      eased == easeOutCubic(t)
      rot == RAdd(cb.startRotation,
                  RMul(RSub(cb.endRotation, cb.startRotation), eased))
      drawn == DrawWheel([st EXCEPT !.rotation = rot], rot)
      ended == IF RLess(t, RInt(1)) THEN drawn
               ELSE finishSpin(drawn, cb.targetIndex, winOk)
  IN  [ended EXCEPT !.raf = Append(@, cb)]

\* animate(now) of the session cb
animate(st, cb, frameTime, winOk) ==
  LET elapsed == frameTime - cb.start
      t == RMin(RInt(1), Rat(elapsed, cb.duration))
      eased == easeOutCubic(t)
      rot == RAdd(cb.startRotation,
                  RMul(RSub(cb.endRotation, cb.startRotation), eased))
      drawn == DrawWheel([st EXCEPT !.rotation = rot], rot)
  IN  IF RLess(t, RInt(1))
      THEN [drawn EXCEPT !.raf = Append(@, cb)]
      ELSE finishSpin(drawn, cb.targetIndex, winOk)

\* spin() without updateBtn.disabled = true
spinLeavesUpdateEnabled(st, targetIndex, fullRot, duration, start, spinOk) ==
  IF SpinRejected(st) THEN st
  ELSE
    LET begun == [st EXCEPT !.spinning = TRUE,
                            !.spinBtnDisabled = TRUE,
                            !.resultText = SpinningText,
                            !.spinSound = Restart(spinOk)]
    IN  IF PlayThrows(spinOk) THEN begun
        ELSE [begun EXCEPT
                !.raf = Append(@, Session(st, targetIndex, fullRot, duration, start)),
                !.lastSpin = [targetIndex |-> targetIndex, fullRot |-> fullRot,
                              from |-> st.rotation, segCount |-> Len(st.names)],
                !.lastFinish = NoFinish]

spin(st, targetIndex, fullRot, duration, start, spinOk) ==
  IF SpinRejected(st) THEN st
  ELSE
    LET begun == [st EXCEPT !.spinning = TRUE,
                            !.spinBtnDisabled = TRUE,
                            !.updateBtnDisabled = TRUE,
                            !.resultText = SpinningText,
                            !.spinSound = Restart(spinOk)]
    IN  IF PlayThrows(spinOk) THEN begun
        ELSE [begun EXCEPT
                !.raf = Append(@, Session(st, targetIndex, fullRot, duration, start)),
                !.lastSpin = [targetIndex |-> targetIndex, fullRot |-> fullRot,
                              from |-> st.rotation, segCount |-> Len(st.names)],
                !.lastFinish = NoFinish]

(***************************************************************************)
(* The click handler of updateBtn (lines 216-226).                         *)
(***************************************************************************)
\* if (!raw) return;
UpdateIgnored(raw) == raw = <<>>

\* the parsed list taken as it is, without the fallback
NewNamesNoFallback(raw) == ParseNames(raw)

\* arr.length ? arr : [...defaultNames]
NewNames(raw) ==
  LET arr == ParseNames(raw)
  IN  IF Len(arr) > 0 THEN arr ELSE defaultNames

\* the handler without rotation = 0
updateHandlerKeepsRotation(st, value) ==
  LET raw == Trim(value)
  IN  IF UpdateIgnored(raw) THEN st
      ELSE DrawWheel([st EXCEPT !.names = NewNames(raw),
                                !.resultText = IdleText],
                     st.rotation)

updateHandler(st, value) ==
  LET raw == Trim(value)
  IN  IF UpdateIgnored(raw) THEN st
      ELSE DrawWheel([st EXCEPT !.names = NewNames(raw),
                                !.resultText = IdleText,
                                !.rotation = RInt(0)],
                     RInt(0))

(***************************************************************************)
(* Initial state (lines 17-19, 28, 33-36, 232) and the events.             *)
(***************************************************************************)
InitProgram ==
  /\ names = defaultNames
  /\ rotation = RInt(0)
  /\ spinning = FALSE
  /\ spinBtnDisabled = FALSE
  /\ updateBtnDisabled = FALSE
  /\ resultText = IdleText
  /\ raf = <<>>
  /\ canvas = [rot |-> RInt(0), segCount |-> Max(1, Len(defaultNames))]
  /\ spinSound = Silent
  /\ winSound = Silent
  /\ now = 0
  /\ accepted = 0
  /\ finished = 0
  /\ lastSpin = NoSpin
  /\ lastFinish = NoFinish
  /\ ev = [by |-> "load", did |-> "drawn"]

Init ==
  /\ InitProgram
  /\ probe = NoProbe

\* Math.floor(Math.random() * segCount)
TargetIndices(segCount) == IF segCount = 0 THEN {0} ELSE 0..(segCount - 1)

\* a rejected spin() returns before it draws anything: one draw stands for all
Drawn(S) == IF SpinRejected(Cur) THEN {CHOOSE x \in S : TRUE} ELSE S

\* one call of spin(), from the event source by
SpinRequest(by) ==
  /\ SpinRejected(Cur) \/ accepted < MaxSpins
  /\ \E targetIndex \in Drawn(TargetIndices(Len(names))), fullRot \in Drawn(FullRots),
        duration \in Drawn(Durations), spinOk \in Drawn(BOOLEAN) :
       /\ Commit(spin(Cur, targetIndex, fullRot, duration, now, spinOk))
       /\ accepted' = IF SpinRejected(Cur) THEN accepted ELSE accepted + 1
       /\ ev' = [by |-> by, did |-> IF SpinRejected(Cur) THEN "rejected" ELSE "accepted"]
       /\ now' = now

\* spinBtn.addEventListener('click', spin): a disabled button receives no click
SpinClick ==
  /\ ~spinBtnDisabled
  /\ SpinRequest("spinBtn")

\* the keydown handler: e.code === 'Space' calls spin() whatever the buttons' state
SpaceKey == SpinRequest("Space")

\* the callbacks of one frame run in the order they were requested; what they
\* request runs in a later frame
RECURSIVE RunCallbacks(_, _, _, _)
RunCallbacks(st, queue, frameTime, winOk) ==
  IF queue = <<>> THEN st
  ELSE RunCallbacks(animate(st, Head(queue), frameTime, winOk), Tail(queue),
                    frameTime, winOk)

\* whether winSound.play() is reached in the frame at frameTime: only then is the
\* outcome of playing the win cue drawn
Finishing(frameTime) ==
  \E i \in DOMAIN raf : frameTime - raf[i].start >= raf[i].duration

\* the callbacks of the frame with timestamp now + dt are run
FrameAfter(dt) ==
  \E winOk \in IF Finishing(now + dt) THEN BOOLEAN ELSE {TRUE} :
    LET frameTime == now + dt
        before == [Cur EXCEPT !.raf = <<>>,
                              !.spinSound = Advance(@),
                              !.winSound = Advance(@)]
        st == RunCallbacks(before, raf, frameTime, winOk)
    IN  /\ Commit(st)
        /\ now' = frameTime
        /\ ev' = [by |-> "frame",
                  did |-> IF st.finished > finished THEN "finished" ELSE "animated"]
        /\ UNCHANGED accepted

\* the browser delivers an animation frame
Frame ==
  /\ raf # <<>>
  /\ \E dt \in FrameDeltas : FrameAfter(dt)

\* the first frame after spin() comes soon after the call: no frame has been
\* delivered since the callback was requested, and this one is PromptDeltas later
PromptFrame ==
  /\ raf # <<>>
  /\ \A i \in DOMAIN raf : raf[i].start = now
  /\ \E dt \in PromptDeltas : FrameAfter(dt)

\* what was typed: nothing but spaces, nothing but commas and spaces, or a name
Typed(value) ==
  IF \A i \in DOMAIN value : value[i] = " " THEN "blank"
  ELSE IF \A i \in DOMAIN value : value[i] \in {",", " "} THEN "separators"
  ELSE "names"

\* the histories are of the current list: a handler that sets the list clears them
Forget(st, value) ==
  IF UpdateIgnored(Trim(value)) THEN st
  ELSE [st EXCEPT !.lastSpin = NoSpin, !.lastFinish = NoFinish]

\* one run of the click handler of updateBtn
UpdateRequest(by) ==
  \E value \in Inputs :
    /\ Commit(Forget(updateHandler(Cur, value), value))
    /\ ev' = [by |-> by, did |-> Typed(value)]
    /\ UNCHANGED <<now, accepted>>

\* a click on the update button: a disabled button receives no click
UpdateClick ==
  /\ ~updateBtnDisabled
  /\ UpdateRequest("updateBtn")

\* the handler run while the button is disabled: a click event dispatched by
\* script, during the first DirectSpins spins
UpdateDispatch ==
  /\ updateBtnDisabled
  /\ accepted <= DirectSpins
  /\ UpdateRequest("dispatch")

Next == SpinClick \/ SpaceKey \/ Frame \/ UpdateClick

Spec == Init /\ [][Next]_vars

\* The frame scheduler keeps delivering frames while a callback is pending: weak
\* fairness of Frame.  Frame is enabled exactly when raf # <<>> and every Frame
\* step advances the clock, so the fairness is written with the enabling
\* condition spelled out.
FrameFairness == []<>(raf = <<>>) \/ []<><<Frame>>_vars

FairSpec == Spec /\ FrameFairness

NextDirect == Next \/ UpdateDispatch

\* the same program with the update handler also invoked past the disabled button
SpecDirect == Init /\ [][NextDirect]_vars

NextPrompt == Next \/ PromptFrame

\* the same program with the first frame of a spin also delivered promptly
SpecPrompt == Init /\ [][NextPrompt]_vars

(***************************************************************************)
(* easeOutCubic applied on its own, to two arguments s and t of the grid.  *)
(***************************************************************************)
EaseProbes ==
  {[fn |-> "ease", s |-> Rat(i, EaseGrid), t |-> Rat(j, EaseGrid), done |-> FALSE,
    es |-> RInt(0), et |-> RInt(0)] : i \in 0..EaseGrid, j \in 0..EaseGrid}

EaseInit ==
  /\ InitProgram
  /\ probe \in EaseProbes

EaseApply ==
  /\ probe.fn = "ease"
  /\ ~probe.done
  /\ probe' = [probe EXCEPT !.done = TRUE,
                            !.es = easeOutCubic(probe.s),
                            !.et = easeOutCubic(probe.t)]
  /\ UNCHANGED programVars

EaseSpec == EaseInit /\ [][EaseApply]_vars

(***************************************************************************)
(* The click handler of updateBtn applied on its own, up to MaxUpdates     *)
(* times from the state after load; the probe keeps the texts typed.       *)
(***************************************************************************)
UpdateInit ==
  /\ InitProgram
  /\ probe = [fn |-> "update", typed |-> <<>>]

UpdateApply ==
  /\ probe.fn = "update"
  /\ Len(probe.typed) < MaxUpdates
  /\ \E value \in Inputs :
       LET st == updateHandler(Cur, value)
       IN  /\ names' = st.names
           /\ rotation' = st.rotation
           /\ spinning' = st.spinning
           /\ spinBtnDisabled' = st.spinBtnDisabled
           /\ updateBtnDisabled' = st.updateBtnDisabled
           /\ resultText' = st.resultText
           /\ raf' = st.raf
           /\ canvas' = st.canvas
           /\ spinSound' = st.spinSound
           /\ winSound' = st.winSound
           /\ finished' = st.finished
           /\ lastSpin' = st.lastSpin
           /\ lastFinish' = st.lastFinish
           /\ ev' = [by |-> "updateBtn", did |-> Typed(value)]
           /\ probe' = [probe EXCEPT !.typed = Append(@, value)]
           /\ UNCHANGED <<now, accepted>>

UpdateSpec == UpdateInit /\ [][UpdateApply]_vars

(***************************************************************************)
(* drawWheel applied on its own, to the lists the update handler parses    *)
(* (before its fallback, the empty list among them) and the rotations of   *)
(* the grid.                                                               *)
(***************************************************************************)
DrawLists == {ParseNames(Trim(value)) : value \in Inputs}

DrawRotations == {Rat(k * FullTurn, DrawGrid) : k \in 0..DrawGrid}

NotDrawn ==
  [rot |-> RInt(0), segCount |-> 0, saved |-> 0, slices |-> 0, labels |-> 0,
   ring |-> FALSE, threw |-> FALSE]

DrawProbes ==
  {[fn |-> "draw", list |-> list, rotDeg |-> rotDeg, done |-> FALSE, out |-> NotDrawn] :
     list \in DrawLists, rotDeg \in DrawRotations}

DrawInit ==
  /\ InitProgram
  /\ probe \in DrawProbes

DrawApply ==
  /\ probe.fn = "draw"
  /\ ~probe.done
  /\ probe' = [probe EXCEPT !.done = TRUE,
                            !.out = drawWheel(probe.list, probe.rotDeg)]
  /\ UNCHANGED programVars

DrawSpec == DrawInit /\ [][DrawApply]_vars

(***************************************************************************)
(* Spins made one after the other without an update, their angles computed *)
(* in doubles: from rotation 0, with a list of the first n default names,  *)
(* each spin draws a targetIndex and a fullRot, ends at DSpinEnd and       *)
(* displays DWinnerIndex.                                                  *)
(***************************************************************************)
DoubleLists == {SubSeq(defaultNames, 1, n) : n \in 1..Len(defaultNames)}

DoubleProbes ==
  {[fn |-> "double", names |-> list, rotation |-> DInt(0), spins |-> 0,
    targetIndex |-> -1, fullRot |-> 0, index |-> -1] : list \in DoubleLists}

DoubleInit ==
  /\ InitProgram
  /\ probe \in DoubleProbes

DoubleSpin ==
  /\ probe.fn = "double"
  /\ probe.spins < MaxDoubleSpins
  /\ \E targetIndex \in TargetIndices(Len(probe.names)), fullRot \in FullRots :
       LET segCount == Len(probe.names)
           rot == DSpinEnd(probe.rotation, targetIndex, fullRot, segCount)
       IN  probe' = [probe EXCEPT !.rotation = rot,
                                  !.spins = @ + 1,
                                  !.targetIndex = targetIndex,
                                  !.fullRot = fullRot,
                                  !.index = DWinnerIndex(rot, segCount)]
  /\ UNCHANGED programVars

DoubleSpec == DoubleInit /\ [][DoubleSpin]_vars

(***************************************************************************)
(* Claims.                                                                 *)
(***************************************************************************)
\* the state right after a frame in which finishSpin ran
JustFinished == ev = [by |-> "frame", did |-> "finished"]

\* C1: a spin started from rotation 0 ends at
\* fullRot*360 + targetIndex*(360/N) + (360/N)/2 - 90, and the index finishSpin
\* computes from that rotation is the targetIndex the spin drew.
C1_RoundTrip ==
  (JustFinished /\ lastSpin.from = RInt(0)) =>
    LET N == lastSpin.segCount
        per == Rat(FullTurn, N)
    IN  /\ rotation = RAdd(RAdd(RInt(lastSpin.fullRot * FullTurn),
                                RMul(RInt(lastSpin.targetIndex), per)),
                           RSub(RDiv(per, RInt(2)), RInt(QuarterTurn)))
        /\ lastFinish.index = lastSpin.targetIndex

\* C2: when a spin finishes, the name displayed is names[targetIndex] for the
\* targetIndex drawn at the start of that spin, also for the spins that follow
\* one another without an update.
C2_DisplayedIsTarget ==
  JustFinished => resultText = WinnerPrefix \o names[lastSpin.targetIndex + 1]

\* C3: a spin request received while spinning changes nothing: not the flag, the
\* rotation, the names, the result text, the buttons, the pending animation
\* session, nor the number of scheduled callbacks.
C3_SpinWhileSpinningNoOp ==
  [][(spinning /\ ev'.by \in {"spinBtn", "Space"}) =>
       /\ ev'.did = "rejected"
       /\ UNCHANGED <<spinning, rotation, names, resultText, spinBtnDisabled,
                      updateBtnDisabled, raf, canvas, spinSound, winSound,
                      accepted, finished>>]_vars

\* C3 witness: the Space key was pressed during a spin and the request rejected
C3_Witness ==
  /\ ev = [by |-> "Space", did |-> "rejected"]
  /\ spinning
  /\ Len(raf) = 1

\* C4: at most one animate callback is scheduled, one is scheduled exactly when
\* spinning is true, and finishSpin has run once for every accepted spin but the
\* one in progress.
C4_OneSession ==
  /\ Len(raf) <= 1
  /\ (Len(raf) = 1) <=> spinning
  /\ accepted = finished + Len(raf)

\* C4 witness: a second spin is in progress after the first one finished, and a
\* further request has been rejected
C4_Witness ==
  /\ spinning
  /\ accepted = 2
  /\ finished = 1
  /\ ev.did = "rejected"

\* C5: the update handler run while spinning changes neither names, rotation nor
\* the result text, whether or not the update button is disabled.
C5_UpdateWhileSpinningRejected ==
  [][(spinning /\ ev'.by \in {"updateBtn", "dispatch"}) =>
       UNCHANGED <<names, rotation, resultText>>]_vars

IsWinnerText == \E i \in DOMAIN names : resultText = WinnerPrefix \o names[i]

\* the state a completed spin leaves
SpinCompleted ==
  /\ ~spinning
  /\ ~spinBtnDisabled
  /\ ~updateBtnDisabled
  /\ IsWinnerText

\* C8: with frames delivered and the clock advancing, every state with spinning
\* set leads to one with the flag clear, both buttons enabled and a winner
\* shown; only a frame that runs finishSpin clears the flag, and no other event
\* removes the scheduled callback.
C8_SpinCompletes ==
  /\ spinning ~> SpinCompleted
  /\ [][/\ (spinning /\ ~spinning') => ev' = [by |-> "frame", did |-> "finished"]
        /\ (spinning /\ ev'.by # "frame") => (spinning' /\ raf' = raf)]_vars

\* C8 witness: the second of two accepted spins has completed
C8_Witness ==
  /\ JustFinished
  /\ SpinCompleted
  /\ accepted = 2
  /\ finished = 2

\* C9: a cue that cannot be played stops nothing.  A spin whose spin cue failed has
\* its animation scheduled and leads to a completed spin; a finishSpin whose win
\* cue failed has cleared the flag, enabled both buttons and shown a winner.
C9_AudioFailureNonFatal ==
  /\ [](spinning /\ ~spinSound.playing => Len(raf) = 1)
  /\ (spinning /\ ~spinSound.playing) ~> (JustFinished /\ SpinCompleted)
  /\ [](JustFinished /\ ~winSound.playing => SpinCompleted)

\* C9 witness: the first spin completed though its win cue failed, and the second
\* spin is animating though its spin cue failed
C9_Witness ==
  /\ finished = 1
  /\ ~winSound.playing
  /\ spinning
  /\ ~spinSound.playing
  /\ Len(raf) = 1
  /\ ev.did = "animated"

\* C10: ease(0) = 0, ease(1) = 1, ease(s) <= ease(t) whenever s <= t, and the
\* result is in [0, 1], for s and t on the grid.
C10_EaseMonotone ==
  (probe.fn = "ease" /\ probe.done) =>
    /\ probe.s = RInt(0) => probe.es = RInt(0)
    /\ probe.s = RInt(1) => probe.es = RInt(1)
    /\ RLeq(probe.s, probe.t) => RLeq(probe.es, probe.et)
    /\ RLeq(RInt(0), probe.es) /\ RLeq(probe.es, RInt(1))

\* C10 witness: ease applied to two different arguments strictly inside (0, 1)
C10_Witness ==
  /\ probe.fn = "ease"
  /\ probe.done
  /\ RLess(RInt(0), probe.s)
  /\ RLess(probe.s, probe.t)
  /\ RLess(probe.t, RInt(1))
  /\ RLess(probe.es, probe.et)

\* C11: in every accepted spin, also one started from an accumulated rotation of
\* 360 or more, the distance the wheel is animated through, endRotation -
\* startRotation, is fullRot*360 + targetMidAngle with fullRot in {4, 5, 6}: never
\* more than 6 full turns plus the alignment offset.
C11_TravelIsFinalRotation ==
  \A i \in DOMAIN raf :
    LET travel == RSub(raf[i].endRotation, raf[i].startRotation)
        targetMidAngle == TargetMidAngle(raf[i].targetIndex, lastSpin.segCount)
    IN  /\ raf[i].fullRot \in FullRots
        /\ travel = RAdd(RInt(raf[i].fullRot * FullTurn), targetMidAngle)
        /\ RLeq(travel, RAdd(RInt((MinFullRot + FullRotChoices - 1) * FullTurn),
                              targetMidAngle))

\* C12: rotation never decreases except by a name-list update: every animation
\* frame leaves rotation at least what it was before the frame, and once rotation
\* is 360 or more no step other than an update brings it below 360.
C12_RotationNeverDecreases ==
  [][/\ ev'.by = "frame" => RLeq(rotation, rotation')
     /\ (RLeq(RInt(FullTurn), rotation) /\ ev'.by # "updateBtn") =>
          RLeq(RInt(FullTurn), rotation')]_vars

\* C13: in every state after the first accepted spin, each of the two buttons is
\* disabled exactly when spinning is set, and the result text is 'Spinning...'
\* exactly when spinning is set; the step that clears the flag enables both
\* buttons.
C13_ButtonsAndTextFollowFlag ==
  /\ [](accepted >= 1 =>
          /\ spinBtnDisabled <=> spinning
          /\ updateBtnDisabled <=> spinning
          /\ (resultText = SpinningText) <=> spinning)
  /\ [][(spinning /\ ~spinning') =>
          (~spinBtnDisabled' /\ ~updateBtnDisabled')]_vars

\* C13 witness: the first spin has just completed: the flag is clear, both buttons
\* are enabled and the in-progress text is gone
C13_Witness ==
  /\ JustFinished
  /\ accepted = 1
  /\ ~spinning
  /\ ~spinBtnDisabled
  /\ ~updateBtnDisabled
  /\ resultText # SpinningText

\* C14: the spin cue is set to position 0 and started in the step that sets
\* spinning, starts playing in no other step, and is stopped and rewound in the
\* step that clears the flag, so it plays only while spinning is set; the win cue
\* is set to position 0 and started in every step that completes a spin and in no
\* other step, once per run of finishSpin, with the spin cue stopped and the flag
\* clear.
C14_CueOrdering ==
  /\ [](spinSound.playing => spinning)
  /\ [][/\ (~spinning /\ spinning') => spinSound'.atStart
        /\ (~spinSound.playing /\ spinSound'.playing) => (~spinning /\ spinning')
        /\ (spinning /\ ~spinning') =>
             /\ spinSound' = Silent
             /\ winSound'.atStart
             /\ finished' = finished + 1
        /\ (finished' # finished \/ (winSound' # winSound /\ winSound'.atStart)) =>
             /\ finished' = finished + 1
             /\ winSound'.atStart
             /\ spinSound' = Silent
             /\ spinning /\ ~spinning']_vars

\* C14 witness: the second spin has just completed: its win cue plays from
\* position 0 and the spin cue is stopped and rewound
C14_Witness ==
  /\ JustFinished
  /\ finished = 2
  /\ winSound = [playing |-> TRUE, atStart |-> TRUE]
  /\ spinSound = Silent
  /\ ~spinning

\* the sequence the claim describes: the text split on commas, each piece
\* trimmed, the pieces that are empty after trimming dropped
SplitTrimDrop(text) ==
  LET pieces == SplitCommas(text)
      kept == {i \in DOMAIN pieces : Trim(pieces[i]) # <<>>}
      RECURSIVE Collect(_)
      Collect(i) ==
        IF i > Len(pieces) THEN <<>>
        ELSE IF i \in kept THEN <<Trim(pieces[i])>> \o Collect(i + 1)
        ELSE Collect(i + 1)
  IN  Collect(1)

\* that sequence, or the default list when it is empty
ClaimedNames(text) ==
  IF SplitTrimDrop(text) = <<>> THEN defaultNames ELSE SplitTrimDrop(text)

\* the text typed for the update that has just run
LastTyped(p) == p.typed[Len(p.typed)]

C16_EmptyListDrawsPlaceholder ==
  (probe.fn = "draw" /\ probe.done /\ probe.list = <<>>) =>
    /\ probe.out.segCount = 1
    /\ probe.out.slices = 1
    /\ ~probe.out.threw
    /\ probe.out.ring
    /\ probe.out.saved = 0

\* C17: from every Idle state, whatever the accumulated rotation and the list of
\* N names, the map from the targetIndex a spin draws to the index finishSpin
\* displays is a bijection on 0..N-1: distinct targets give distinct displayed
\* indices and every index is displayed for exactly one target.
C17_EveryTargetDistinctWinner ==
  probe.fn = "double" =>
    \A fullRot \in FullRots :
      LET N == Len(probe.names)
          shown == [t \in 0..(N - 1) |->
                      DWinnerIndex(DSpinEnd(probe.rotation, t, fullRot, N), N)]
      IN  /\ \A s, t \in 0..(N - 1) : s # t => shown[s] # shown[t]
          /\ {shown[t] : t \in 0..(N - 1)} = 0..(N - 1)

\* C18: whenever finishSpin has run, rotation is not negative, the index it
\* computed is in 0..names.length-1, and the result text is 'Winner: ' followed
\* by the name at that index of the current list: the '-' fallback is not shown.
C18_WinnerIsAName ==
  JustFinished =>
    /\ RLeq(RInt(0), rotation)
    /\ lastFinish.index \in 0..(Len(names) - 1)
    /\ resultText = WinnerPrefix \o names[lastFinish.index + 1]
    /\ resultText # WinnerPrefix \o Dash

\* C18 witness: the second of two spins of the default list made without an
\* update has just displayed the last name of the list
C18_Witness ==
  /\ JustFinished
  /\ names = defaultNames
  /\ lastSpin.from # RInt(0)
  /\ lastFinish.index = Len(names) - 1
  /\ resultText = WinnerPrefix \o names[Len(names)]

\* C19: in every state names has at least one entry and every entry is a
\* non-empty text without leading or trailing whitespace; the wheel drawn last
\* has one slice for each name, and a spin request is rejected only because
\* spinning is set, never because the list is empty.
C19_NamesNeverEmpty ==
  /\ [](/\ Len(names) >= 1
        /\ \A i \in DOMAIN names : names[i] # <<>> /\ Trim(names[i]) = names[i]
        /\ canvas.segCount = Len(names))
  /\ [][ev'.did = "rejected" => spinning]_vars

\* C19 witness: after a spin, an update with a text of commas and spaces around
\* three names, one of them repeated, has set a list of three trimmed names
C19_Witness ==
  /\ ev = [by |-> "updateBtn", did |-> "names"]
  /\ finished >= 1
  /\ Len(names) = 3
  /\ names[1] = <<"b">>
  /\ canvas.segCount = 3

=============================================================================
